---- MODULE Spec2Model ----
(***************************************************************************)
(* A model of virttest/utils_test/libvirt.py:                              *)
(*   - MigrationTest.do_migration and MigrationTest.thread_func_migration  *)
(*     (threads, timed joins, the shared fields RET_MIGRATION, ret,        *)
(*     mig_time and the lock RET_LOCK),                                    *)
(*   - connect_libvirtd (the prompt loop),                                 *)
(*   - exec_virsh_edit,                                                    *)
(*   - cpus_parser and cpus_string_to_affinity_list,                       *)
(*   - check_result,                                                       *)
(*   - setup_or_cleanup_nfs (with the host's SELinux status),              *)
(*   - define_pool and PoolVolumeTest.cleanup_pool.                        *)
(* Each part has its own specification; the variables of the other parts   *)
(* stay at their initial values. SpecBoth runs the two CPU list parsers on *)
(* one string.                                                             *)
(***************************************************************************)
EXTENDS Integers, Sequences, FiniteSets, TLC

\* ------------------------------------------------------------------ bounds
\* The longest vms list handed to do_migration.
MaxVms == 2

\* The most entries of patterns_extra_dict, and the most prompts one
\* connect_libvirtd session shows before the command's output or an error.
MaxExtra == 2

MaxPrompts == 2

\* The longest edit_cmd list handed to exec_virsh_edit.
MaxEditCmds == 2

\* check_result: the longest expected_fails and skip_if lists.
MaxPatterns == 2

\* setup_or_cleanup_nfs: the most calls made on one host.
MaxNfsCalls == 2

\* define_pool: the largest kwargs['gluster_vol_number'].
MaxGlusterVols == 2

\* cpus_parser: the largest CPU number and the most items of a cpulist.
MaxCpu == 2

MaxItems == 2

\* ------------------------------------------------------------- state
VARIABLES
    \* --- MigrationTest fields (libvirt.py 1202-1213)
    RET_MIGRATION,      \* self.RET_MIGRATION
    RET_LOCK,           \* self.RET_LOCK: thread -> number of acquisitions held
    mig_time,           \* self.mig_time: the vm names it has an entry for
    ret,                \* self.ret: None or the exit status of the CmdResult
    \* --- do_migration: arguments and locals
    migration_type, ignore_status, func, vms,
    pcMain,             \* where do_migration is
    i,                  \* position of the running for loop in its list
    vm_remote, thread1, thread2, migration_threads,
    outcome,            \* how do_migration ended
    \* --- threads running thread_func_migration
    tpc,                \* thread -> where it is
    tvm,                \* thread -> its vm argument
    own,                \* thread -> the status its own vm.migrate gave, until checked
    \* --- history
    vms0,               \* the vms list as the caller handed it over
    \* --- connect_libvirtd: argument, locals, the session and the result
    patterns_extra_dict, \* a sequence of <<pattern, response>>, in keys() order
    c_pc,               \* where connect_libvirtd is
    match,              \* what read_until_any_line_matches gave last
    c_log,              \* history: each prompt answered, and with what
    c_raised,           \* history: the session raised ShellError/ExpectError
    c_closed,           \* number of session.close() calls
    c_ret,              \* the value returned
    \* --- exec_virsh_edit: argument, the session and the result
    edit_cmd,           \* the edit command list
    e_pc,               \* where exec_virsh_edit is
    e_sent,             \* what the session was sent, in order
    e_raised,           \* history: a call inside the try block raised
    e_closed,           \* number of session.close() calls
    e_ret,              \* the value returned
    \* --- cpus_parser: argument and result
    cpulist,            \* the argument: a string (sequence of characters) or None
    cpu_items,          \* history: the items the string was written from
    cpu_pc,             \* "call" or "done"
    cpu_ret             \* what the call gave

migVars == <<RET_MIGRATION, RET_LOCK, mig_time, ret, migration_type,
             ignore_status, func, vms, pcMain, i, vm_remote, thread1, thread2,
             migration_threads, outcome, tpc, tvm, own, vms0>>

connVars == <<patterns_extra_dict, c_pc, match, c_log, c_raised, c_closed, c_ret>>

editVars == <<edit_cmd, e_pc, e_sent, e_raised, e_closed, e_ret>>

cpuVars == <<cpulist, cpu_items, cpu_pc, cpu_ret>>

VARIABLES
    \* --- cpus_string_to_affinity_list: arguments and result
    cpus_string,        \* the argument: a string (sequence of characters)
    num_cpus,           \* the argument num_cpus
    aff_items,          \* history: the items the string was written from
    aff_pc,             \* "call" or "done"
    aff_ret             \* what the call gave

affVars == <<cpus_string, num_cpus, aff_items, aff_pc, aff_ret>>

VARIABLES
    \* --- check_result: arguments and how the call ended
    exit_status,        \* result.exit_status
    stderr,             \* result.stderr
    expected_fails, skip_if, any_error,
    chk_pc,             \* "call" or "done"
    chk_out             \* "return", "TestFail" or "TestSkipError"

chkVars == <<exit_status, stderr, expected_fails, skip_if, any_error, chk_pc, chk_out>>

VARIABLES
    \* --- setup_or_cleanup_nfs: the host and the calls made
    ubuntu,             \* distro.detect().name == 'Ubuntu'
    selinux,            \* the host's SELinux status
    nfs_calls,          \* history: number of calls made
    nfs_last,           \* history: the last call, its arguments and its result
    nfs_prev            \* history: the call before the last, in short

nfsVars == <<ubuntu, selinux, nfs_calls, nfs_last, nfs_prev>>

VARIABLES
    \* --- define_pool: arguments, locals, the host's fixtures
    pool_type,          \* the argument pool_type
    gluster_vol_number, \* kwargs['gluster_vol_number']
    cleanup_flag,       \* the caller's list, index 0 to 4
    dp_pc,              \* where define_pool is
    dp_local,           \* cleanup_nfs, cleanup_iscsi, cleanup_logical, selinux_bak, cleanup_gluster
    dp_todo,            \* the calls still to make after the fixture's setup
    fixtures,           \* history: the fixtures set up on the host
    dp_out              \* how define_pool ended

poolVars == <<pool_type, gluster_vol_number, cleanup_flag, dp_pc, dp_local,
              dp_todo, fixtures, dp_out>>

VARIABLES
    \* --- PoolVolumeTest.cleanup_pool: the object, arguments, position
    self_selinux_bak,   \* self.selinux_bak
    cp_pool_type,       \* the argument pool_type
    source_format,      \* kwargs.get('source_format')
    device_name,        \* kwargs.get('device_name', "/DEV/EXAMPLE")
    cp_pc,              \* where cleanup_pool is
    cp_pending,         \* the exception the try block left with ("None": none)
    cp_todo,            \* the teardown steps of the finally block still to run
    cp_ran,             \* history: the teardown steps that have run
    cp_out              \* how cleanup_pool ended

cleanVars == <<self_selinux_bak, cp_pool_type, source_format, device_name, cp_pc,
               cp_pending, cp_todo, cp_ran, cp_out>>

vars == <<migVars, connVars, editVars, cpuVars, affVars, chkVars, nfsVars, poolVars, cleanVars>>

\* What an action of one part leaves alone: the other parts.
nonMigVars == <<connVars, editVars, cpuVars, affVars, chkVars, nfsVars, poolVars, cleanVars>>

nonConnVars == <<migVars, editVars, cpuVars, affVars, chkVars, nfsVars, poolVars, cleanVars>>

nonEditVars == <<migVars, connVars, cpuVars, affVars, chkVars, nfsVars, poolVars, cleanVars>>

nonCpuVars == <<migVars, connVars, editVars, affVars, chkVars, nfsVars, poolVars, cleanVars>>

nonAffVars == <<migVars, connVars, editVars, cpuVars, chkVars, nfsVars, poolVars, cleanVars>>

nonChkVars == <<migVars, connVars, editVars, cpuVars, affVars, nfsVars, poolVars, cleanVars>>

nonNfsVars == <<migVars, connVars, editVars, cpuVars, affVars, chkVars, poolVars, cleanVars>>

nonPoolVars == <<migVars, connVars, editVars, cpuVars, affVars, chkVars, nfsVars, cleanVars>>

\* What a step of define_pool that calls setup_or_cleanup_nfs leaves alone.
nonNfsPoolVars == <<migVars, connVars, editVars, cpuVars, affVars, chkVars, cleanVars>>

nonCleanVars == <<migVars, connVars, editVars, cpuVars, affVars, chkVars, nfsVars, poolVars>>

\* What a step of cleanup_pool that calls setup_or_cleanup_nfs leaves alone.
nonNfsCleanVars == <<migVars, connVars, editVars, cpuVars, affVars, chkVars, poolVars>>

\* ------------------------------------------------------------- helpers
\* Python's None in a field that otherwise holds a number.
None == -1

\* process.CmdError raised by vm.migrate, where an exit status would stand.
CmdError == -2

\* The calling thread (it runs do_migration, and thread_func_migration itself
\* for the first migration of "cross").
Main == 0

\* Thread objects do_migration can create: at most two per vm.
Tids == 1 .. (2 * MaxVms)

Threads == {Main} \cup Tids

\* What one vm.migrate call produces when it comes back: a CmdResult with an
\* exit status, or the exception process.CmdError.
MigrateResults == {0, 1, CmdError}

\* threading.Thread.isAlive(): started and not yet finished.
IsAlive(t) == tpc[t] \notin {"new", "done"}

\* The next Thread object do_migration creates (they are numbered as made).
NextTid == Cardinality({t \in Tids : tpc[t] # "new"}) + 1

Range(s) == {s[k] : k \in DOMAIN s}

Front(s) == SubSeq(s, 1, Len(s) - 1)

\* ------------------------------------------------------------- Init
\* connect_libvirtd not called.
ConnIdle ==
    /\ patterns_extra_dict = << >>
    /\ c_pc = "idle"
    /\ match = 0
    /\ c_log = << >>
    /\ c_raised = FALSE
    /\ c_closed = 0
    /\ c_ret = "None"

\* exec_virsh_edit not called.
EditIdle ==
    /\ edit_cmd = << >>
    /\ e_pc = "idle"
    /\ e_sent = << >>
    /\ e_raised = FALSE
    /\ e_closed = 0
    /\ e_ret = "None"

\* cpus_parser not called.
CpuIdle ==
    /\ cpulist = << >>
    /\ cpu_items = << >>
    /\ cpu_pc = "idle"
    /\ cpu_ret = [kind |-> "unset", val |-> << >>]

\* do_migration not called.
MigIdle ==
    /\ RET_MIGRATION = TRUE
    /\ RET_LOCK = [t \in Threads |-> 0]
    /\ mig_time = {}
    /\ ret = None
    /\ migration_type = "orderly"
    /\ ignore_status = FALSE
    /\ func = FALSE
    /\ vms = << >>
    /\ vms0 = << >>
    /\ pcMain = "idle"
    /\ i = 0
    /\ vm_remote = None
    /\ thread1 = None
    /\ thread2 = None
    /\ migration_threads = << >>
    /\ outcome = "running"
    /\ tpc = [t \in Threads |-> "new"]
    /\ tvm = [t \in Threads |-> None]
    /\ own = [t \in Threads |-> None]

\* A MigrationTest object just constructed (1202-1213) and a call of
\* do_migration(vms, srcuri, desturi, migration_type, ...) about to start.
MigInit ==
    /\ RET_MIGRATION = TRUE
    /\ RET_LOCK = [t \in Threads |-> 0]
    /\ mig_time = {}
    /\ ret = None
    /\ migration_type \in {"orderly", "cross", "simultaneous"}
    /\ ignore_status \in BOOLEAN
    /\ func \in (IF migration_type = "orderly" THEN BOOLEAN ELSE {FALSE})
    /\ \E n \in 0 .. MaxVms : vms = [k \in 1 .. n |-> k]
    /\ vms0 = vms
    /\ pcMain = "start"
    /\ i = 0
    /\ vm_remote = None
    /\ thread1 = None
    /\ thread2 = None
    /\ migration_threads = << >>
    /\ outcome = "running"
    /\ tpc = [t \in Threads |-> "new"]
    /\ tvm = [t \in Threads |-> None]
    /\ own = [t \in Threads |-> None]

\* cpus_string_to_affinity_list not called.
AffIdle ==
    /\ cpus_string = << >>
    /\ num_cpus = 0
    /\ aff_items = << >>
    /\ aff_pc = "idle"
    /\ aff_ret = [kind |-> "unset", val |-> << >>]

\* check_result not called.
ChkIdle ==
    /\ exit_status = 0
    /\ stderr = << >>
    /\ expected_fails = << >>
    /\ skip_if = << >>
    /\ any_error = FALSE
    /\ chk_pc = "idle"
    /\ chk_out = "None"

\* No call of setup_or_cleanup_nfs yet.
NoNfsCall ==
    [is_setup |-> FALSE, is_mount |-> FALSE, restore_selinux |-> << >>,
     returned |-> FALSE, before |-> "None", result |-> << >>]

NoNfsPrev == [is_setup |-> FALSE, returned |-> FALSE, before |-> "None", bak |-> << >>]

\* setup_or_cleanup_nfs not called.
NfsIdle ==
    /\ ubuntu = FALSE
    /\ selinux = "disabled"
    /\ nfs_calls = 0
    /\ nfs_last = NoNfsCall
    /\ nfs_prev = NoNfsPrev

\* The locals of define_pool as it sets them first (616-620).
FreshLocals ==
    [cleanup_nfs |-> FALSE, cleanup_iscsi |-> FALSE, cleanup_logical |-> FALSE,
     selinux_bak |-> << >>, cleanup_gluster |-> FALSE]

\* The list a caller hands over as cleanup_flag: nothing to clean up.
FreshFlags == (0 :> FALSE) @@ (1 :> FALSE) @@ (2 :> FALSE) @@ (3 :> << >>) @@ (4 :> FALSE)

\* define_pool not called.
PoolIdle ==
    /\ pool_type = "dir"
    /\ gluster_vol_number = 0
    /\ cleanup_flag = FreshFlags
    /\ dp_pc = "idle"
    /\ dp_local = FreshLocals
    /\ dp_todo = << >>
    /\ fixtures = {}
    /\ dp_out = "running"

\* cleanup_pool not called.
CleanIdle ==
    /\ self_selinux_bak = << >>
    /\ cp_pool_type = "dir"
    /\ source_format = "None"
    /\ device_name = "/DEV/EXAMPLE"
    /\ cp_pc = "idle"
    /\ cp_pending = "None"
    /\ cp_todo = << >>
    /\ cp_ran = {}
    /\ cp_out = "running"

\* ------------------------------------------------ thread_func_migration
\* The local is_error is the thread's position: it is True exactly when the
\* thread is on its way through the finally clause's locked assignment
\* ("acquire", "set", "release").
argVars == <<migration_type, ignore_status, func, vms0>>

mainVars == <<vms, pcMain, i, vm_remote, thread1, thread2, migration_threads, outcome>>

\* RLock.acquire(): blocks while another thread holds the lock; re-entrant.
LockFree(t) == \A u \in Threads \ {t} : RET_LOCK[u] = 0

\* self.ret = vm.migrate(...) comes back: the CmdResult is stored in the shared
\* self.ret, or CmdError is caught and is_error set (1285-1288, 1295-1299).
\* A command that never terminates is this action never being taken.
ThreadMigrateReturn(t) ==
    /\ tpc[t] = "migrate"
    /\ \E r \in MigrateResults :
        /\ own' = [own EXCEPT ![t] = IF r = CmdError THEN None ELSE r]
        /\ IF r = CmdError
           THEN /\ tpc' = [tpc EXCEPT ![t] = "acquire"]
                /\ ret' = ret
           ELSE /\ tpc' = [tpc EXCEPT ![t] = "check"]
                /\ ret' = r
    /\ UNCHANGED <<RET_MIGRATION, RET_LOCK, mig_time, argVars, nonMigVars, mainVars, tvm>>

\* self.mig_time[vm.name] = etime - stime; if self.ret.exit_status != 0:
\* is_error = True; then the finally clause's test of is_error (1289-1294,
\* 1298-1299). The status read is the one the shared self.ret holds now. A
\* thread that finds no error returns.
ThreadCheckRet(t) ==
    /\ tpc[t] = "check"
    /\ mig_time' = mig_time \cup {tvm[t]}
    /\ IF ret # 0
       THEN /\ tpc' = [tpc EXCEPT ![t] = "acquire"]
            /\ own' = [own EXCEPT ![t] = None]
       ELSE /\ tpc' = [tpc EXCEPT ![t] = "done"]
            /\ own' = [own EXCEPT ![t] = None]
    /\ UNCHANGED <<RET_MIGRATION, RET_LOCK, ret, argVars, nonMigVars, mainVars, tvm>>

\* ThreadAcquire with a lock that does not exclude.
ThreadAcquire_NoExclusion(t) ==
    /\ tpc[t] = "acquire"
    /\ RET_LOCK' = [RET_LOCK EXCEPT ![t] = @ + 1]
    /\ tpc' = [tpc EXCEPT ![t] = "set"]
    /\ UNCHANGED <<RET_MIGRATION, mig_time, ret, argVars, nonMigVars, mainVars, tvm, own>>

\* self.RET_LOCK.acquire() (1300).
ThreadAcquire(t) ==
    /\ tpc[t] = "acquire"
    /\ LockFree(t)
    /\ RET_LOCK' = [RET_LOCK EXCEPT ![t] = @ + 1]
    /\ tpc' = [tpc EXCEPT ![t] = "set"]
    /\ UNCHANGED <<RET_MIGRATION, mig_time, ret, argVars, nonMigVars, mainVars, tvm, own>>

\* ThreadSetFalse for a thread that is stopped once do_migration has ended.
ThreadSetFalse_OnlyWhileRunning(t) ==
    /\ pcMain # "done"
    /\ tpc[t] = "set"
    /\ RET_MIGRATION' = FALSE
    /\ tpc' = [tpc EXCEPT ![t] = "release"]
    /\ UNCHANGED <<RET_LOCK, mig_time, ret, argVars, nonMigVars, mainVars, tvm, own>>

\* self.RET_MIGRATION = False (1301).
ThreadSetFalse(t) ==
    /\ tpc[t] = "set"
    /\ RET_MIGRATION' = FALSE
    /\ tpc' = [tpc EXCEPT ![t] = "release"]
    /\ UNCHANGED <<RET_LOCK, mig_time, ret, argVars, nonMigVars, mainVars, tvm, own>>

\* self.RET_LOCK.release() (1302), and the function returns.
ThreadRelease(t) ==
    /\ tpc[t] = "release"
    /\ RET_LOCK' = [RET_LOCK EXCEPT ![t] = @ - 1]
    /\ tpc' = [tpc EXCEPT ![t] = "done"]
    /\ own' = [own EXCEPT ![t] = None]
    /\ UNCHANGED <<RET_MIGRATION, mig_time, ret, argVars, nonMigVars, mainVars, tvm>>

\* The steps of thread_func_migration after vm.migrate has come back.
ThreadStep(t) ==
    \/ ThreadCheckRet(t)
    \/ ThreadAcquire(t)
    \/ ThreadSetFalse(t)
    \/ ThreadRelease(t)

\* ------------------------------------------------------- do_migration
sharedVars == <<RET_MIGRATION, RET_LOCK, mig_time, ret>>

\* threading.Thread(target=self.thread_func_migration, args=(vm, ...)).start()
\* for every thread of S, vmOf giving its vm argument.
StartThreads(S, vmOf) ==
    /\ tpc' = [t \in Threads |-> IF t \in S THEN "migrate" ELSE tpc[t]]
    /\ tvm' = [t \in Threads |-> IF t \in S THEN vmOf[t] ELSE tvm[t]]
    /\ own' = own

\* JoinReturns for a join that ignores its timeout.
JoinReturns_Untimed(t, timed) == ~IsAlive(t)

\* When Thread.join on t comes back: once t has finished, or, for a join with
\* a timeout, once the timeout has run out, which the scheduling can make any
\* moment.
JoinReturns(t, timed) == timed \/ ~IsAlive(t)

\* if migration_type == "orderly": for vm in vms (1379-1380).
StartOrderly ==
    /\ pcMain = "start"
    /\ migration_type = "orderly"
    /\ pcMain' = "o_loop"
    /\ i' = 1
    /\ UNCHANGED <<sharedVars, argVars, nonMigVars, vms, vm_remote, thread1, thread2,
                   migration_threads, outcome, tpc, tvm, own>>

\* One pass of the orderly loop up to the thread's start (1380-1387), or the
\* loop's end.
OrderlyLoop ==
    /\ pcMain = "o_loop"
    /\ IF i <= Len(vms)
       THEN /\ migration_threads' = <<NextTid>>
            /\ StartThreads({NextTid}, [t \in {NextTid} |-> vms[i]])
            /\ pcMain' = IF func THEN "o_func" ELSE "o_join"
       ELSE /\ pcMain' = "final"
            /\ UNCHANGED <<migration_threads, tpc, tvm, own>>
    /\ UNCHANGED <<sharedVars, argVars, nonMigVars, vms, i, vm_remote, thread1, thread2,
                   outcome>>

\* if func: wait_for_migration_start(...) says whether the migration started,
\* and if it did func is called; func may raise, which ends do_migration
\* (1388-1404).
OrderlyFunc ==
    /\ pcMain = "o_func"
    /\ \E started \in BOOLEAN, raises \in BOOLEAN :
        IF started /\ raises
        THEN /\ outcome' = "FuncError"
             /\ pcMain' = "done"
        ELSE /\ pcMain' = "o_join"
             /\ outcome' = outcome
    /\ UNCHANGED <<sharedVars, argVars, nonMigVars, vms, i, vm_remote, thread1, thread2,
                   migration_threads, tpc, tvm, own>>

\* if eclipse_time < thread_timeout: migration_thread.join(thread_timeout -
\* eclipse_time) (1405-1408); the join is skipped when no time is left.
OrderlyJoin ==
    /\ pcMain = "o_join"
    /\ \E timeLeft \in BOOLEAN :
        timeLeft => JoinReturns(migration_threads[1], TRUE)
    /\ pcMain' = "o_alive"
    /\ UNCHANGED <<sharedVars, argVars, nonMigVars, vms, i, vm_remote, thread1, thread2,
                   migration_threads, outcome, tpc, tvm, own>>

\* if migration_thread.isAlive() (1409).
OrderlyIsAlive ==
    /\ pcMain = "o_alive"
    /\ IF IsAlive(migration_threads[1])
       THEN /\ pcMain' = "acquire"
            /\ i' = i
       ELSE /\ pcMain' = "o_loop"
            /\ i' = i + 1
    /\ UNCHANGED <<sharedVars, argVars, nonMigVars, vms, vm_remote, thread1, thread2,
                   migration_threads, outcome, tpc, tvm, own>>

\* self.RET_LOCK.acquire() in do_migration (1411, 1431, 1451).
MainAcquire ==
    /\ pcMain = "acquire"
    /\ LockFree(Main)
    /\ RET_LOCK' = [RET_LOCK EXCEPT ![Main] = @ + 1]
    /\ pcMain' = "set"
    /\ UNCHANGED <<RET_MIGRATION, mig_time, ret, argVars, nonMigVars, vms, i, vm_remote,
                   thread1, thread2, migration_threads, outcome, tpc, tvm, own>>

\* self.RET_MIGRATION = False in do_migration (1412, 1432, 1452).
MainSetFalse ==
    /\ pcMain = "set"
    /\ RET_MIGRATION' = FALSE
    /\ pcMain' = "release"
    /\ UNCHANGED <<RET_LOCK, mig_time, ret, argVars, nonMigVars, vms, i, vm_remote,
                   thread1, thread2, migration_threads, outcome, tpc, tvm, own>>

\* self.RET_LOCK.release() in do_migration (1413, 1433, 1453), and on to the
\* next pass of the loop.
MainRelease ==
    /\ pcMain = "release"
    /\ RET_LOCK' = [RET_LOCK EXCEPT ![Main] = @ - 1]
    /\ i' = i + 1
    /\ pcMain' = CASE migration_type = "orderly" -> "o_loop"
                   [] migration_type = "cross" -> "x_loop"
                   [] OTHER -> "s_join"
    /\ UNCHANGED <<RET_MIGRATION, mig_time, ret, argVars, nonMigVars, vms, vm_remote,
                   thread1, thread2, migration_threads, outcome, tpc, tvm, own>>

\* elif migration_type == "cross": vm_remote = vms.pop() and the call of
\* self.thread_func_migration(vm_remote, desturi) in the calling thread
\* (1414-1418). pop() of an empty list raises IndexError.
StartCross ==
    /\ pcMain = "start"
    /\ migration_type = "cross"
    /\ IF vms = << >>
       THEN /\ outcome' = "IndexError"
            /\ pcMain' = "done"
            /\ UNCHANGED <<vms, vm_remote, tpc, tvm, own>>
       ELSE /\ vm_remote' = vms[Len(vms)]
            /\ vms' = Front(vms)
            /\ StartThreads({Main}, [t \in {Main} |-> vms[Len(vms)]])
            /\ pcMain' = "x_call"
            /\ outcome' = outcome
    /\ UNCHANGED <<sharedVars, argVars, nonMigVars, i, thread1, thread2, migration_threads>>

\* self.thread_func_migration(vm_remote, desturi) has returned (1418): on to
\* the loop.
CrossCallReturns ==
    /\ pcMain = "x_call"
    /\ tpc[Main] = "done"
    /\ pcMain' = "x_loop"
    /\ i' = 1
    /\ UNCHANGED <<sharedVars, argVars, nonMigVars, vms, vm_remote, thread1, thread2,
                   migration_threads, outcome, tpc, tvm, own>>

\* One pass of the cross loop up to the two starts (1419-1425), or the loop's
\* end.
CrossLoop ==
    /\ pcMain = "x_loop"
    /\ IF i <= Len(vms)
       THEN /\ thread1' = NextTid
            /\ thread2' = NextTid + 1
            /\ StartThreads({NextTid, NextTid + 1},
                            [t \in {NextTid, NextTid + 1} |->
                               IF t = NextTid THEN vm_remote ELSE vms[i]])
            /\ pcMain' = "x_join1"
       ELSE /\ pcMain' = "x_append"
            /\ UNCHANGED <<thread1, thread2, tpc, tvm, own>>
    /\ UNCHANGED <<sharedVars, argVars, nonMigVars, vms, i, vm_remote, migration_threads,
                   outcome>>

\* thread1.join(thread_timeout) (1426).
CrossJoin1 ==
    /\ pcMain = "x_join1"
    /\ JoinReturns(thread1, TRUE)
    /\ pcMain' = "x_join2"
    /\ UNCHANGED <<sharedVars, argVars, nonMigVars, vms, i, vm_remote, thread1, thread2,
                   migration_threads, outcome, tpc, tvm, own>>

\* thread2.join(thread_timeout); vm_remote = vm (1427-1428).
CrossJoin2 ==
    /\ pcMain = "x_join2"
    /\ JoinReturns(thread2, TRUE)
    /\ vm_remote' = vms[i]
    /\ pcMain' = "x_alive"
    /\ UNCHANGED <<sharedVars, argVars, nonMigVars, vms, i, thread1, thread2,
                   migration_threads, outcome, tpc, tvm, own>>

\* if thread1.isAlive() or thread1.isAlive() (1429).
CrossIsAlive ==
    /\ pcMain = "x_alive"
    /\ IF IsAlive(thread1) \/ IsAlive(thread1)
       THEN /\ pcMain' = "acquire"
            /\ i' = i
       ELSE /\ pcMain' = "x_loop"
            /\ i' = i + 1
    /\ UNCHANGED <<sharedVars, argVars, nonMigVars, vms, vm_remote, thread1, thread2,
                   migration_threads, outcome, tpc, tvm, own>>

\* vms.append(vm_remote) (1434-1435).
CrossAppend ==
    /\ pcMain = "x_append"
    /\ vms' = Append(vms, vm_remote)
    /\ pcMain' = "final"
    /\ UNCHANGED <<sharedVars, argVars, nonMigVars, i, vm_remote, thread1, thread2,
                   migration_threads, outcome, tpc, tvm, own>>

\* elif migration_type == "simultaneous": one thread per vm, all started
\* (1436-1444).
StartSimultaneous ==
    /\ pcMain = "start"
    /\ migration_type = "simultaneous"
    /\ migration_threads' = [k \in 1 .. Len(vms) |-> k]
    /\ StartThreads(1 .. Len(vms), [t \in 1 .. Len(vms) |-> vms[t]])
    /\ pcMain' = "s_join"
    /\ i' = 1
    /\ UNCHANGED <<sharedVars, argVars, nonMigVars, vms, vm_remote, thread1, thread2,
                   outcome>>

\* for thread in migration_threads: thread.join(thread_timeout) (1447-1448),
\* or the loop's end.
SimJoin ==
    /\ pcMain = "s_join"
    /\ IF i <= Len(migration_threads)
       THEN /\ JoinReturns(migration_threads[i], TRUE)
            /\ pcMain' = "s_alive"
       ELSE pcMain' = "final"
    /\ UNCHANGED <<sharedVars, argVars, nonMigVars, vms, i, vm_remote, thread1, thread2,
                   migration_threads, outcome, tpc, tvm, own>>

\* if thread.isAlive() (1449).
SimIsAlive ==
    /\ pcMain = "s_alive"
    /\ IF IsAlive(migration_threads[i])
       THEN /\ pcMain' = "acquire"
            /\ i' = i
       ELSE /\ pcMain' = "s_join"
            /\ i' = i + 1
    /\ UNCHANGED <<sharedVars, argVars, nonMigVars, vms, vm_remote, thread1, thread2,
                   migration_threads, outcome, tpc, tvm, own>>

\* Final without the test of ignore_status.
Final_NoIgnoreStatus ==
    /\ pcMain = "final"
    /\ outcome' = IF ~RET_MIGRATION THEN "TestFail" ELSE "returned"
    /\ pcMain' = "done"
    /\ UNCHANGED <<sharedVars, argVars, nonMigVars, vms, i, vm_remote, thread1, thread2,
                   migration_threads, tpc, tvm, own>>

\* if not self.RET_MIGRATION and not ignore_status: raise TestFail (1455-1456).
Final ==
    /\ pcMain = "final"
    /\ outcome' = IF ~RET_MIGRATION /\ ~ignore_status THEN "TestFail" ELSE "returned"
    /\ pcMain' = "done"
    /\ UNCHANGED <<sharedVars, argVars, nonMigVars, vms, i, vm_remote, thread1, thread2,
                   migration_threads, tpc, tvm, own>>

\* The steps of the thread that called do_migration, but for the return of
\* the vm.migrate it runs itself.
MainStep ==
    \/ StartOrderly \/ OrderlyLoop \/ OrderlyFunc \/ OrderlyJoin \/ OrderlyIsAlive
    \/ StartCross \/ CrossCallReturns \/ CrossLoop \/ CrossJoin1 \/ CrossJoin2
    \/ CrossIsAlive \/ CrossAppend
    \/ StartSimultaneous \/ SimJoin \/ SimIsAlive
    \/ MainAcquire \/ MainSetFalse \/ MainRelease
    \/ Final

MigNext ==
    \/ MainStep
    \/ \E t \in Threads : ThreadMigrateReturn(t)
    \/ \E t \in Threads : ThreadStep(t)

\* do_migration with threads scheduled freely.
InitMig == MigInit /\ ConnIdle /\ EditIdle /\ CpuIdle /\ AffIdle /\ ChkIdle /\ NfsIdle /\ PoolIdle /\ CleanIdle

SpecMig == InitMig /\ [][MigNext]_vars

\* Any step but the return of a vm.migrate command.
ProgramStep == MainStep \/ \E t \in Threads : ThreadStep(t)

\* The same with the scheduling the interpreter gives: while some thread can
\* run, one does (so a timed join comes back, a released lock is taken); no
\* vm.migrate command has to terminate.
FairMig == InitMig /\ [][MigNext]_vars /\ WF_vars(ProgramStep)

\* ------------------------------------------------ claims on do_migration
\* do_migration has gone through its last statement (1455-1456).
Finished == pcMain = "done" /\ outcome \in {"returned", "TestFail"}

\* C1: for a non-empty vms list, the step that ends do_migration raises
\* TestFail exactly when RET_MIGRATION is False at that step and
\* ignore_status is False; otherwise do_migration returns normally.
C1_TestFailIffFlagAndNotIgnored ==
    [][(vms0 # << >> /\ pcMain = "final" /\ pcMain' = "done")
         => /\ outcome' \in {"TestFail", "returned"}
            /\ (outcome' = "TestFail") <=> (~RET_MIGRATION /\ ~ignore_status)]_vars

\* C1 happens: a call on a non-empty list has raised TestFail.
C1_Witness == vms0 # << >> /\ outcome = "TestFail"

\* C2, as claimed, for the threads that are still running when do_migration
\* has finished (they were alive after the timed join on them, whatever the
\* type): do_migration has then set RET_MIGRATION to False.
C2_AliveAfterJoinSetsFlag ==
    (Finished /\ \E t \in Tids : IsAlive(t)) => RET_MIGRATION = FALSE

\* C3: RET_MIGRATION is assigned only by a thread that holds RET_LOCK, no two
\* threads hold RET_LOCK at once, and a thread holds it only between its
\* acquire and the release that follows, never once its code has returned.
C3_LockDiscipline ==
    /\ [](/\ \A t \in Threads : tpc[t] = "set" => RET_LOCK[t] > 0
          /\ pcMain = "set" => RET_LOCK[Main] > 0
          /\ Cardinality({t \in Threads : RET_LOCK[t] > 0}) <= 1
          /\ \A t \in Threads :
                RET_LOCK[t] > 0 =>
                   \/ tpc[t] \in {"set", "release"}
                   \/ t = Main /\ pcMain \in {"set", "release"})
    /\ [][RET_MIGRATION' # RET_MIGRATION =>
            \E t \in Threads : RET_LOCK[t] > 0 /\ RET_LOCK'[t] > 0]_vars

\* C3 happens: one thread holds RET_LOCK while another waits to acquire it.
C3_Witness ==
    \E t \in Threads : \E u \in Threads \ {t} :
        /\ RET_LOCK[t] > 0
        /\ tpc[u] = "acquire" \/ (u = Main /\ pcMain = "acquire")

\* C4, as claimed: the exit status a thread is about to check in self.ret is
\* the result of that thread's own vm.migrate call.
C4_ChecksOwnResult ==
    \A t \in Threads : tpc[t] = "check" => ret = own[t]

\* C5, as claimed: do_migration eventually returns or raises, for every
\* migration type, even if a migrate command never terminates.
C5_AlwaysEnds == <>(pcMain = "done")

\* C5, amended: do_migration eventually returns or raises for orderly and
\* simultaneous whatever the migrate commands do, and for cross once the
\* first migration, which the calling thread runs itself, has come back.
C5_EndsUnlessFirstCrossMigrationHangs ==
    (\/ migration_type # "cross"
     \/ migration_type = "cross" /\ pcMain # "start" /\ tpc[Main] # "migrate")
        ~> (pcMain = "done")

\* C5 happens: do_migration has ended while a migrate command of one of its
\* threads has not come back.
C5_Witness == pcMain = "done" /\ \E t \in Tids : tpc[t] = "migrate"

\* C6, as claimed: after a cross do_migration has returned, the caller's list
\* holds the same VMs as before the call.
C6_CrossKeepsVms ==
    (migration_type = "cross" /\ pcMain = "done" /\ outcome = "returned")
        => (Len(vms) = Len(vms0) /\ Range(vms) = Range(vms0))

\* C19, as claimed: a thread goes on to set RET_MIGRATION to False exactly
\* when its own vm.migrate call gave a non-zero exit status or raised
\* CmdError; a thread whose own migration succeeded returns without it.
C19_SetsFalseIffOwnMigrationFailed ==
    [][\A t \in Threads :
          /\ (tpc[t] = "check" /\ tpc'[t] = "acquire") => own[t] # 0
          /\ (tpc[t] = "check" /\ tpc'[t] = "done") => own[t] = 0]_vars

\* C20: a thread still alive when do_migration has ended is not cancelled:
\* it ends only by reaching the end of its own code, and once do_migration
\* has ended it can still take its next step (store self.ret, write
\* mig_time, write RET_MIGRATION), or waits for RET_LOCK that another
\* thread holds.
C20_ThreadsOutliveDoMigration ==
    /\ [](\A t \in Tids :
             (pcMain = "done" /\ IsAlive(t)) =>
                \/ ENABLED (ThreadMigrateReturn(t) \/ ThreadStep(t))
                \/ \E u \in Threads \ {t} : RET_LOCK[u] > 0)
    /\ [][\A t \in Tids :
            (IsAlive(t) /\ tpc'[t] = "done") => tpc[t] \in {"check", "release"}]_vars

\* C20 happens: do_migration has gone through its last statement while one
\* thread is about to write RET_MIGRATION and the migrate command of
\* another has not come back.
C20_Witness ==
    /\ Finished
    /\ \E t \in Tids : \E u \in Tids :
          /\ tpc[t] = "set"
          /\ tpc[u] = "migrate"

\* ---------------------------------------------------- connect_libvirtd
\* A regular expression, by what it is for; n numbers the extra ones.
Pattern(kind, n) == [kind |-> kind, n |-> n]

\* A line handed to session.sendline, by what it is; n numbers the responses
\* of patterns_extra_dict.
Text(kind, n) == [kind |-> kind, n |-> n]

patterns_yes_no == Pattern("yes_no", 0)

patterns_auth_name_comm == Pattern("auth_name_comm", 0)

patterns_auth_name_xen == Pattern("auth_name_xen", 0)

patterns_auth_pwd == Pattern("auth_pwd", 0)

patterns_virsh_cmd == Pattern("virsh_cmd", 0)

auth_user == Text("auth_user", 0)

auth_pwd == Text("auth_pwd", 0)

\* list(patterns_extra_dict.keys())
Keys(d) == [j \in 1 .. Len(d) |-> d[j][1]]

\* patterns_extra_dict.get(key, default)
DictGet(d, key, default) ==
    IF \E j \in 1 .. Len(d) : d[j][1] = key
    THEN d[CHOOSE j \in 1 .. Len(d) : d[j][1] = key][2]
    ELSE default

\* Python's list[idx] for an index in range: a negative idx counts from the end.
PyIndex(list, idx) == IF idx >= 0 THEN list[idx + 1] ELSE list[Len(list) + idx + 1]

\* Whether Python's list[idx] raises IndexError.
PyIndexError(list, idx) == idx >= Len(list) \/ idx < -Len(list)

\* match_list (2881-2885): the five fixed patterns, then the extra ones when
\* patterns_extra_dict is given and not empty.
match_list ==
    <<patterns_yes_no, patterns_auth_name_comm, patterns_auth_name_xen,
      patterns_auth_pwd, patterns_virsh_cmd>> \o Keys(patterns_extra_dict)

patterns_list_len == Len(match_list)

\* IndexInExtraDict one short.
IndexInExtraDict_OneShort(m) == m + Len(patterns_extra_dict) - 1

\* index_in_extra_dict = match + extra_len (2908-2909).
IndexInExtraDict(m) == m + Len(patterns_extra_dict)

\* IsUsernameMatch without the xen form of the prompt.
IsUsernameMatch_CommonOnly(m) == m = -patterns_list_len + 1

\* match == -patterns_list_len+1 or match == -patterns_list_len+2 (2896).
IsUsernameMatch(m) == m = -patterns_list_len + 1 \/ m = -patterns_list_len + 2

\* The if/elif chain of the loop body for one match (2892-2917): what is done
\* ("send" and go on reading, "break", or IndexError out of the key lookup),
\* the line sent and the index used into the extra keys.
Dispatch(m) ==
    IF m = -patterns_list_len
    THEN [do |-> "send", line |-> Text("yes", 0), branch |-> "yes_no", index |-> 0]
    ELSE IF IsUsernameMatch(m)
    THEN [do |-> "send", line |-> auth_user, branch |-> "username", index |-> 0]
    ELSE IF m = -patterns_list_len + 3
    THEN [do |-> "send", line |-> auth_pwd, branch |-> "password", index |-> 0]
    ELSE IF m = -patterns_list_len + 4
    THEN [do |-> "break", line |-> Text("none", 0), branch |-> "virsh_cmd", index |-> 0]
    ELSE IF patterns_list_len > 5
    THEN IF PyIndexError(Keys(patterns_extra_dict), IndexInExtraDict(m))
         THEN [do |-> "IndexError", line |-> Text("none", 0), branch |-> "extra",
               index |-> IndexInExtraDict(m)]
         ELSE [do |-> "send",
               line |-> DictGet(patterns_extra_dict,
                                PyIndex(Keys(patterns_extra_dict), IndexInExtraDict(m)),
                                Text("empty", 0)),
               branch |-> "extra", index |-> IndexInExtraDict(m)]
    ELSE [do |-> "break", line |-> Text("none", 0), branch |-> "unmatched", index |-> 0]

\* A call of connect_libvirtd with a patterns_extra_dict of k entries (None
\* and {} are k = 0); the session has been set up (2877).
ConnInit ==
    /\ \E k \in 0 .. MaxExtra :
         patterns_extra_dict = [j \in 1 .. k |-> <<Pattern("extra", j), Text("response", j)>>]
    /\ c_pc = "read"
    /\ match = 0
    /\ c_log = << >>
    /\ c_raised = FALSE
    /\ c_closed = 0
    /\ c_ret = "None"

\* session.read_until_any_line_matches(match_list, ...) (2889-2891): it gives
\* the matching pattern as a negative index into match_list, or raises an
\* ExpectError (timeout, process terminated). A session shows at most
\* MaxPrompts prompts.
ConnRead ==
    /\ c_pc = "read"
    /\ \/ \E m \in (-patterns_list_len) .. -1 :
            /\ Len(c_log) < MaxPrompts \/ PyIndex(match_list, m) = patterns_virsh_cmd
            /\ match' = m
            /\ c_pc' = "matched"
            /\ c_raised' = c_raised
       \/ /\ c_raised' = TRUE
          /\ c_pc' = "except"
          /\ match' = match
    /\ UNCHANGED <<patterns_extra_dict, c_log, c_closed, c_ret, nonConnVars>>

\* The loop body after the read (2892-2917).
ConnDispatch ==
    /\ c_pc = "matched"
    /\ IF Dispatch(match).do = "send"
       THEN /\ c_log' = Append(c_log, [match |-> match,
                                       sent |-> Dispatch(match).line,
                                       branch |-> Dispatch(match).branch,
                                       index |-> Dispatch(match).index])
            /\ c_pc' = "read"
       ELSE /\ c_pc' = IF Dispatch(match).do = "break" THEN "close" ELSE "IndexError"
            /\ c_log' = c_log
    /\ UNCHANGED <<patterns_extra_dict, match, c_raised, c_closed, c_ret, nonConnVars>>

\* session.close(); return True (2919-2920).
ConnReturnTrue ==
    /\ c_pc = "close"
    /\ c_closed' = c_closed + 1
    /\ c_ret' = "True"
    /\ c_pc' = "done"
    /\ UNCHANGED <<patterns_extra_dict, match, c_log, c_raised, nonConnVars>>

\* except (aexpect.ShellError, aexpect.ExpectError): session.close();
\* return False (2921-2925).
ConnExcept ==
    /\ c_pc = "except"
    /\ c_closed' = c_closed + 1
    /\ c_ret' = "False"
    /\ c_pc' = "done"
    /\ UNCHANGED <<patterns_extra_dict, match, c_log, c_raised, nonConnVars>>

ConnNext == ConnRead \/ ConnDispatch \/ ConnReturnTrue \/ ConnExcept

InitConn == ConnInit /\ MigIdle /\ EditIdle /\ CpuIdle /\ AffIdle /\ ChkIdle /\ NfsIdle /\ PoolIdle /\ CleanIdle

SpecConn == InitConn /\ [][ConnNext]_vars

\* ------------------------------------------- claims on connect_libvirtd
\* The pattern the session reported with negative index m.
Matched(m) == PyIndex(match_list, m)

\* C7: a yes/no prompt is answered with "yes", a username prompt (common or
\* xen form) with auth_user, a password prompt with auth_pwd, and after each
\* answer the loop reads again; the loop is left only on a match of the virsh
\* command pattern or on an exception of the session, and the function
\* returns True in the first case and False in the second.
C7_PromptLoop ==
    /\ \A n \in DOMAIN c_log :
         /\ Matched(c_log[n].match) = patterns_yes_no
               => c_log[n].sent = Text("yes", 0)
         /\ Matched(c_log[n].match) \in {patterns_auth_name_comm, patterns_auth_name_xen}
               => c_log[n].sent = auth_user
         /\ Matched(c_log[n].match) = patterns_auth_pwd
               => c_log[n].sent = auth_pwd
    /\ c_pc = "read" =>
         \/ match = 0 /\ c_log = << >>
         \/ c_log # << >> /\ c_log[Len(c_log)].match = match
    /\ c_pc = "close" => Matched(match) = patterns_virsh_cmd /\ ~c_raised
    /\ c_pc = "except" => c_raised
    /\ c_pc = "done" =>
         \/ c_ret = "True" /\ ~c_raised /\ Matched(match) = patterns_virsh_cmd
         \/ c_ret = "False" /\ c_raised

\* C7 happens: a session that asked for user name and password and then
\* showed the command's output has made the function return True.
C7_Witness ==
    /\ c_pc = "done"
    /\ c_ret = "True"
    /\ \E n \in DOMAIN c_log : Matched(c_log[n].match) = patterns_auth_name_xen
    /\ \E n \in DOMAIN c_log : Matched(c_log[n].match) = patterns_auth_pwd

\* C8: when the session reports a match on one of the patterns of
\* patterns_extra_dict, the function sends the response patterns_extra_dict
\* maps that pattern to and reads again; the index it uses stays within the
\* extra patterns and the lookup never fails.
C8_ExtraResponse ==
    /\ c_pc # "IndexError"
    /\ c_pc = "close" => Matched(match).kind # "extra"
    /\ \A n \in DOMAIN c_log :
         Matched(c_log[n].match).kind = "extra" =>
            /\ c_log[n].branch = "extra"
            /\ c_log[n].index \in 0 .. (Len(patterns_extra_dict) - 1)
            /\ \E j \in 1 .. Len(patterns_extra_dict) :
                  patterns_extra_dict[j] = <<Matched(c_log[n].match), c_log[n].sent>>

\* C8 happens: with two or more extra patterns, the first of them has been
\* answered.
C8_Witness ==
    /\ Len(patterns_extra_dict) >= 2
    /\ \E n \in DOMAIN c_log : Matched(c_log[n].match) = patterns_extra_dict[1][1]

\* ------------------------------------------------------ exec_virsh_edit
\* What the session is handed: by sendline (a line) or by send (raw).
Sent(how, text) == [how |-> how, text |-> text]

\* The edit commands a caller may hand over.
EditCommands == {":cmd_a", ":cmd_b"}

\* A call of exec_virsh_edit(source, edit_cmd); the session exists (3088).
EditInit ==
    /\ \E n \in 0 .. MaxEditCmds : edit_cmd \in [1 .. n -> EditCommands]
    /\ e_pc = "virsh"
    /\ e_sent = << >>
    /\ e_raised = FALSE
    /\ e_closed = 0
    /\ e_ret = "None"

\* One call on the session inside the try block: it goes through, and the
\* function moves to pcOk with the session having been sent what the call
\* sends, or it raises and control goes to the except clause.
SessionCall(sends, pcOk) ==
    \/ /\ e_sent' = e_sent \o sends
       /\ e_pc' = pcOk
       /\ e_raised' = e_raised
    \/ /\ e_raised' = TRUE
       /\ e_pc' = "except"
       /\ e_sent' = e_sent

\* session.sendline("virsh -c %s edit %s" % (connect_uri, source)) (3090).
EditSendVirsh ==
    /\ e_pc = "virsh"
    /\ SessionCall(<<Sent("sendline", "virsh edit")>>, "cmds")
    /\ UNCHANGED <<edit_cmd, e_closed, e_ret, nonEditVars>>

\* for cmd in edit_cmd: session.sendline(cmd) (3091-3092): the next command,
\* which is the one after those already sent, or the loop's end.
EditSendCmd ==
    /\ e_pc = "cmds"
    /\ IF Len(e_sent) <= Len(edit_cmd)
       THEN SessionCall(<<Sent("sendline", edit_cmd[Len(e_sent)])>>, "cmds")
       ELSE /\ e_pc' = "esc"
            /\ UNCHANGED <<e_sent, e_raised>>
    /\ UNCHANGED <<edit_cmd, e_closed, e_ret, nonEditVars>>

\* session.send('\x1b') (3093).
EditSendEsc ==
    /\ e_pc = "esc"
    /\ SessionCall(<<Sent("send", "ESC")>>, "zz")
    /\ UNCHANGED <<edit_cmd, e_closed, e_ret, nonEditVars>>

\* session.send('ZZ') (3094).
EditSendZZ ==
    /\ e_pc = "zz"
    /\ SessionCall(<<Sent("send", "ZZ")>>, "prompts")
    /\ UNCHANGED <<edit_cmd, e_closed, e_ret, nonEditVars>>

\* remote.handle_prompts(session, None, None, r"[\#\$]\s*$", debug=True) (3095).
EditHandlePrompts ==
    /\ e_pc = "prompts"
    /\ SessionCall(<< >>, "close")
    /\ UNCHANGED <<edit_cmd, e_closed, e_ret, nonEditVars>>

\* session.close(); return True (3096-3097).
EditReturnTrue ==
    /\ e_pc = "close"
    /\ e_closed' = e_closed + 1
    /\ e_ret' = "True"
    /\ e_pc' = "done"
    /\ UNCHANGED <<edit_cmd, e_sent, e_raised, nonEditVars>>

\* EditExcept that forgets the session.
EditExcept_NoClose ==
    /\ e_pc = "except"
    /\ e_ret' = "False"
    /\ e_pc' = "done"
    /\ UNCHANGED <<edit_cmd, e_sent, e_raised, e_closed, nonEditVars>>

\* except Exception: session.close(); return False (3098-3101).
EditExcept ==
    /\ e_pc = "except"
    /\ e_closed' = e_closed + 1
    /\ e_ret' = "False"
    /\ e_pc' = "done"
    /\ UNCHANGED <<edit_cmd, e_sent, e_raised, nonEditVars>>

EditNext ==
    \/ EditSendVirsh \/ EditSendCmd \/ EditSendEsc \/ EditSendZZ
    \/ EditHandlePrompts \/ EditReturnTrue \/ EditExcept

InitEdit == EditInit /\ MigIdle /\ ConnIdle /\ CpuIdle /\ AffIdle /\ ChkIdle /\ NfsIdle /\ PoolIdle /\ CleanIdle

SpecEdit == InitEdit /\ [][EditNext]_vars

\* -------------------------------------------- claims on exec_virsh_edit
\* Everything a call without exception sends, in order.
FullEdit ==
    <<Sent("sendline", "virsh edit")>>
    \o [j \in 1 .. Len(edit_cmd) |-> Sent("sendline", edit_cmd[j])]
    \o <<Sent("send", "ESC"), Sent("send", "ZZ")>>

IsPrefix(p, q) == Len(p) <= Len(q) /\ SubSeq(q, 1, Len(p)) = p

\* C9: the session is sent the virsh edit command, then the edit commands in
\* the given order, then ESC and ZZ; the function returns True if nothing
\* raised up to and including the prompt handling and False otherwise, and
\* it has closed the session exactly once when it returns.
C9_EditSequenceAndClose ==
    /\ IsPrefix(e_sent, FullEdit)
    /\ e_closed <= 1
    /\ e_pc = "done" =>
         /\ e_closed = 1
         /\ e_ret \in {"True", "False"}
         /\ (e_ret = "True") <=> ~e_raised
    /\ e_ret = "True" => e_sent = FullEdit
    /\ e_pc # "done" => e_closed = 0 /\ e_ret = "None"

\* C9 happens: a call with two different edit commands has returned True.
C9_Witness ==
    /\ e_pc = "done"
    /\ e_ret = "True"
    /\ Len(edit_cmd) >= 2
    /\ edit_cmd[1] # edit_cmd[2]

\* ---------------------------------------------------------- cpus_parser
\* A string is a sequence of one-character strings. None, where a string
\* would stand, is the sequence NoneStr, which no string of CPU syntax is.
NoneStr == <<"None">>

Digits == <<"0", "1", "2", "3", "4", "5", "6", "7", "8", "9">>

IsDigit(c) == \E d \in 1 .. 10 : Digits[d] = c

DigitValue(c) == (CHOOSE d \in 1 .. 10 : Digits[d] = c) - 1

\* c in s
Contains(s, c) == \E k \in 1 .. Len(s) : s[k] = c

\* re.split(c, s) for a pattern that is the one literal character c (and
\* s.split(c)): the pieces between the occurrences of c, empty ones kept.
RECURSIVE Split(_, _)
Split(s, c) ==
    IF ~Contains(s, c)
    THEN <<s>>
    ELSE LET k == CHOOSE k \in 1 .. Len(s) :
                     s[k] = c /\ \A j \in 1 .. (k - 1) : s[j] # c
         IN <<SubSeq(s, 1, k - 1)>> \o Split(SubSeq(s, k + 1, Len(s)), c)

\* re.split("^", s): the pattern is the anchor, not a caret character; it
\* matches the empty string at the start of s only, so whatever the Python
\* version's handling of empty matches (<<s>>, or <<"", s>> from 3.7 on) the
\* last piece is all of s.
SplitAnchorLast(s) == s

\* The value int() gives where it raises ValueError.
ValueError == -1

\* int(s) for a string of this alphabet: the decimal value of a non-empty
\* string of digits, ValueError for anything else.
RECURSIVE DecimalValue(_)
DecimalValue(s) ==
    IF s = << >> THEN 0
    ELSE 10 * DecimalValue(SubSeq(s, 1, Len(s) - 1)) + DigitValue(s[Len(s)])

PyInt(s) ==
    IF s # << >> /\ \A k \in 1 .. Len(s) : IsDigit(s[k])
    THEN DecimalValue(s)
    ELSE ValueError

\* list(range(a, b))
PyRange(a, b) == [k \in 1 .. (IF b > a THEN b - a ELSE 0) |-> a + k - 1]

\* sorted(list(S)) for a set of numbers.
RECURSIVE Sorted(_)
Sorted(S) ==
    IF S = {} THEN << >>
    ELSE LET m == CHOOSE x \in S : \A y \in S : x <= y
         IN <<m>> \o Sorted(S \ {m})

\* HyphenRange that leaves the range's upper end out.
HyphenRange_NoUpperEnd(tmp) ==
    IF PyInt(tmp[1]) = ValueError \/ PyInt(tmp[Len(tmp)]) = ValueError
    THEN <<ValueError>>
    ELSE PyRange(PyInt(tmp[1]), PyInt(tmp[Len(tmp)]))

\* list(range(int(tmp[0]), int(tmp[-1]) + 1)) (174, 186); <<ValueError>>
\* when one of the int() calls raises.
HyphenRange(tmp) ==
    IF PyInt(tmp[1]) = ValueError \/ PyInt(tmp[Len(tmp)]) = ValueError
    THEN <<ValueError>>
    ELSE PyRange(PyInt(tmp[1]), PyInt(tmp[Len(tmp)]) + 1)

\* The lists the function fills, and whether a ValueError has escaped.
Lists(hyphens, carets, commas, raised) ==
    [hyphens |-> hyphens, carets |-> carets, commas |-> commas, raised |-> raised]

\* The for loop over cpulist_list (171-183), from item k on, with the lists
\* as filled so far. Only the int() of the last branch is inside try/except.
RECURSIVE CommaLoop(_, _, _)
CommaLoop(cpulist_list, k, acc) ==
    IF k > Len(cpulist_list) \/ acc.raised
    THEN acc
    ELSE LET item == cpulist_list[k] IN
         IF Contains(item, "-")
         THEN LET r == HyphenRange(Split(item, "-")) IN
              IF r = <<ValueError>>
              THEN Lists(acc.hyphens, acc.carets, acc.commas, TRUE)
              ELSE CommaLoop(cpulist_list, k + 1,
                             Lists(acc.hyphens \o r, acc.carets, acc.commas, FALSE))
         ELSE IF Contains(item, "^")
         THEN LET tmp == Split(item, "^")[Len(Split(item, "^"))] IN
              IF PyInt(tmp) = ValueError
              THEN Lists(acc.hyphens, acc.carets, acc.commas, TRUE)
              ELSE CommaLoop(cpulist_list, k + 1,
                             Lists(acc.hyphens, Append(acc.carets, PyInt(tmp)),
                                   acc.commas, FALSE))
         ELSE IF PyInt(item) = ValueError
         THEN CommaLoop(cpulist_list, k + 1, acc)
         ELSE CommaLoop(cpulist_list, k + 1,
                        Lists(acc.hyphens, acc.carets,
                              Append(acc.commas, PyInt(item)), FALSE))

\* What a call gives: a list, None, or an escaped ValueError.
Result(kind, val) == [kind |-> kind, val |-> val]

\* cpus_set = set(hyphens).union(set(commas)).difference(set(carets));
\* return sorted(list(cpus_set)) (198-200).
SortedCpus(acc) ==
    Result("list", Sorted((Range(acc.hyphens) \cup Range(acc.commas)) \ Range(acc.carets)))

\* cpus_parser(cpulist) (154-200).
cpus_parser(s) ==
    IF s = NoneStr
    THEN Result("None", << >>)
    ELSE IF Contains(s, ",")
    THEN LET acc == CommaLoop(Split(s, ","), 1, Lists(<< >>, << >>, << >>, FALSE)) IN
         IF acc.raised THEN Result("ValueError", << >>) ELSE SortedCpus(acc)
    ELSE IF Contains(s, "-")
    THEN LET r == HyphenRange(Split(s, "-")) IN
         IF r = <<ValueError>>
         THEN Result("ValueError", << >>)
         ELSE SortedCpus(Lists(r, << >>, << >>, FALSE))
    ELSE IF Contains(s, "^")
    THEN IF PyInt(SplitAnchorLast(s)) = ValueError
         THEN Result("ValueError", << >>)
         ELSE SortedCpus(Lists(<< >>, <<PyInt(SplitAnchorLast(s))>>, << >>, FALSE))
    ELSE IF PyInt(s) = ValueError
    THEN SortedCpus(Lists(<< >>, << >>, << >>, FALSE))
    ELSE Result("list", <<PyInt(s)>>)

\* --- the strings handed to cpus_parser
\* One item of a cpulist: an integer a, a range a-b, an exclusion ^a, or a
\* token that is no number.
Item(kind, a, b) == [kind |-> kind, a |-> a, b |-> b]

Items ==
    {Item("int", a, 0) : a \in 0 .. MaxCpu}
    \cup {Item("range", a, b) : a \in 0 .. MaxCpu, b \in 0 .. MaxCpu}
    \cup {Item("excl", a, 0) : a \in 0 .. MaxCpu}
    \cup {Item("junk", 0, 0)}

\* str(n) for n >= 0.
RECURSIVE Str(_)
Str(n) == IF n < 10 THEN <<Digits[n + 1]>> ELSE Str(n \div 10) \o <<Digits[(n % 10) + 1]>>

\* An item as it is written.
ItemStr(it) ==
    CASE it.kind = "int" -> Str(it.a)
      [] it.kind = "range" -> Str(it.a) \o <<"-">> \o Str(it.b)
      [] it.kind = "excl" -> <<"^">> \o Str(it.a)
      [] OTHER -> <<"x">>

\* ",".join of the items as written.
RECURSIVE Join(_)
Join(its) ==
    IF Len(its) = 1 THEN ItemStr(its[1])
    ELSE ItemStr(its[1]) \o <<",">> \o Join(SubSeq(its, 2, Len(its)))

\* A call of cpus_parser on None or on a string of one to MaxItems items.
CpuInit ==
    /\ \/ cpu_items = << >> /\ cpulist = NoneStr
       \/ \E n \in 1 .. MaxItems :
            /\ cpu_items \in [1 .. n -> Items]
            /\ cpulist = Join(cpu_items)
    /\ cpu_pc = "call"
    /\ cpu_ret = [kind |-> "unset", val |-> << >>]

\* The call.
CpusParserCall ==
    /\ cpu_pc = "call"
    /\ cpu_ret' = cpus_parser(cpulist)
    /\ cpu_pc' = "done"
    /\ UNCHANGED <<cpulist, cpu_items, nonCpuVars>>

CpuNext == CpusParserCall

InitCpu == CpuInit /\ MigIdle /\ ConnIdle /\ EditIdle /\ AffIdle /\ ChkIdle /\ NfsIdle /\ PoolIdle /\ CleanIdle

SpecCpu == InitCpu /\ [][CpuNext]_vars

\* ------------------------------------------------ claims on cpus_parser
\* The CPUs the integers and ranges of the items name.
Named ==
    UNION {IF cpu_items[k].kind = "int" THEN {cpu_items[k].a}
           ELSE IF cpu_items[k].kind = "range" THEN cpu_items[k].a .. cpu_items[k].b
           ELSE {} : k \in DOMAIN cpu_items}

\* The CPUs the items exclude.
Excluded == {cpu_items[k].a : k \in {j \in DOMAIN cpu_items : cpu_items[j].kind = "excl"}}

Ascending(s) == \A j \in 1 .. (Len(s) - 1) : s[j] < s[j + 1]

\* C10: for a cpulist of two or more items, each an integer, a range or an
\* exclusion, cpus_parser returns the ascending duplicate-free list of the
\* CPUs the integers and ranges name minus the excluded ones, whatever the
\* order of the items; cpus_parser(None) returns None.
C10_CommaListIsNamedMinusExcluded ==
    cpu_pc = "done" =>
       /\ (Len(cpu_items) >= 2
             /\ \A k \in DOMAIN cpu_items : cpu_items[k].kind \in {"int", "range", "excl"})
          => /\ cpu_ret.kind = "list"
             /\ Ascending(cpu_ret.val)
             /\ Range(cpu_ret.val) = Named \ Excluded
       /\ cpulist = NoneStr => cpu_ret = Result("None", << >>)

\* C10 happens: "0-2,^1" has been parsed to [0, 2].
C10_Witness ==
    /\ cpu_pc = "done"
    /\ cpulist = <<"0", "-", "2", ",", "^", "1">>
    /\ cpu_ret = Result("list", <<0, 2>>)

\* C11: for a cpulist of one item (no comma) cpus_parser returns [N] for
\* the integer N, the ascending list A..B for the range A-B, and an empty
\* list for the exclusion ^N and for a token that is no integer; it raises
\* for none of them.
C11_SingleItemNeverRaises ==
    (cpu_pc = "done" /\ Len(cpu_items) = 1) =>
       LET it == cpu_items[1] IN
       /\ cpu_ret.kind = "list"
       /\ it.kind = "int" => cpu_ret.val = <<it.a>>
       /\ it.kind = "range" => cpu_ret.val = PyRange(it.a, it.b + 1)
       /\ it.kind \in {"excl", "junk"} => cpu_ret.val = << >>

\* ----------------------------------------- cpus_string_to_affinity_list
\* The largest num_cpus handed over: two more than the largest CPU number,
\* so that a list can name every CPU, some of them, or one too many.
MaxNumCpus == MaxCpu + 2

\* s.strip(c): the leading and the trailing occurrences of c removed.
RECURSIVE Strip(_, _)
Strip(s, c) ==
    IF s # << >> /\ s[1] = c THEN Strip(Tail(s), c)
    ELSE IF s # << >> /\ s[Len(s)] = c THEN Strip(Front(s), c)
    ELSE s

\* The list affinity, and the exception that has escaped ("no" for none).
Aff(affinity, raised) == [affinity |-> affinity, raised |-> raised]

\* SetItem that leaves the list as it is.
SetItem_Ignored(affinity, n, v) == Aff(affinity, "no")

\* affinity[n] = v for n >= 0 (list indices count from 0): IndexError when
\* n is not below len(affinity).
SetItem(affinity, n, v) ==
    IF n >= Len(affinity)
    THEN Aff(affinity, "IndexError")
    ELSE Aff([k \in 1 .. Len(affinity) |-> IF k = n + 1 THEN v ELSE affinity[k]], "no")

\* for i in range(lo, hi + 1): affinity[i] = "y" (240-241).
SetRange(affinity, lo, hi) ==
    IF \E n \in lo .. hi : n >= Len(affinity)
    THEN Aff(affinity, "IndexError")
    ELSE Aff([k \in 1 .. Len(affinity) |->
                 IF (k - 1) \in lo .. hi THEN "y" ELSE affinity[k]], "no")

\* The for loop over sub_cpus (236-246), from item k on. No int() and no
\* item assignment is inside a try block.
RECURSIVE AffLoop(_, _, _)
AffLoop(sub_cpus, k, acc) ==
    IF k > Len(sub_cpus) \/ acc.raised # "no"
    THEN acc
    ELSE LET cpus == sub_cpus[k] IN
         IF Contains(cpus, "-")
         THEN LET minmum == Split(cpus, "-")[1]
                  maxmum == Split(cpus, "-")[Len(Split(cpus, "-"))]
              IN IF PyInt(minmum) = ValueError \/ PyInt(maxmum) = ValueError
                 THEN Aff(acc.affinity, "ValueError")
                 ELSE AffLoop(sub_cpus, k + 1,
                              SetRange(acc.affinity, PyInt(minmum), PyInt(maxmum)))
         ELSE IF Contains(cpus, "^")
         THEN IF PyInt(Strip(cpus, "^")) = ValueError
              THEN Aff(acc.affinity, "ValueError")
              ELSE AffLoop(sub_cpus, k + 1,
                           SetItem(acc.affinity, PyInt(Strip(cpus, "^")), "-"))
         ELSE IF PyInt(cpus) = ValueError
         THEN Aff(acc.affinity, "ValueError")
         ELSE AffLoop(sub_cpus, k + 1, SetItem(acc.affinity, PyInt(cpus), "y"))

\* cpus_string_to_affinity_list(cpus_string, num_cpus) (203-247). The test
\* of the string against the pattern (215-223) only writes a debug line.
cpus_string_to_affinity_list(s, n) ==
    IF s = <<"r">>
    THEN Result("list", [k \in 1 .. n |-> "y"])
    ELSE LET acc == AffLoop(Split(s, ","), 1, Aff([k \in 1 .. n |-> "-"], "no")) IN
         IF acc.raised # "no"
         THEN Result(acc.raised, << >>)
         ELSE Result("list", acc.affinity)

\* A call of cpus_string_to_affinity_list on "r" or on a string of one to
\* MaxItems items, for a num_cpus of 0 to MaxNumCpus.
AffInit ==
    /\ \/ aff_items = << >> /\ cpus_string = <<"r">>
       \/ \E n \in 1 .. MaxItems :
            /\ aff_items \in [1 .. n -> Items]
            /\ cpus_string = Join(aff_items)
    /\ num_cpus \in 0 .. MaxNumCpus
    /\ aff_pc = "call"
    /\ aff_ret = [kind |-> "unset", val |-> << >>]

\* The call.
AffinityCall ==
    /\ aff_pc = "call"
    /\ aff_ret' = cpus_string_to_affinity_list(cpus_string, num_cpus)
    /\ aff_pc' = "done"
    /\ UNCHANGED <<cpus_string, num_cpus, aff_items, nonAffVars>>

AffNext == AffinityCall

InitAff == AffInit /\ MigIdle /\ ConnIdle /\ EditIdle /\ CpuIdle /\ ChkIdle /\ NfsIdle /\ PoolIdle /\ CleanIdle

SpecAff == InitAff /\ [][AffNext]_vars

\* ------------------------------- claims on cpus_string_to_affinity_list
\* Item it says something about CPU c.
Touches(it, c) ==
    IF it.kind = "range" THEN c \in it.a .. it.b
    ELSE it.kind \in {"int", "excl"} /\ c = it.a

\* What the items, applied left to right to a list of '-', leave at CPU c:
\* what the last item that touches c says.
Expected(c) ==
    LET T == {k \in DOMAIN aff_items : Touches(aff_items[k], c)} IN
    IF T = {} THEN "-"
    ELSE LET last == CHOOSE k \in T : \A j \in T : j <= k IN
         IF aff_items[last].kind = "excl" THEN "-" ELSE "y"

\* Every item is an integer, a range or an exclusion, and every CPU number
\* written in it is below n.
DocumentedBelow(n) ==
    \A k \in DOMAIN aff_items :
        /\ aff_items[k].kind \in {"int", "range", "excl"}
        /\ aff_items[k].a < n
        /\ aff_items[k].kind = "range" => aff_items[k].b < n

\* C12: for a cpus_string in the documented syntax whose CPU numbers are
\* all below num_cpus, cpus_string_to_affinity_list returns num_cpus
\* entries, each 'y' or '-', that are what the items applied left to right
\* to a list of '-' leave (an integer or a range sets 'y', ^N sets '-');
\* the string 'r' gives num_cpus entries 'y'.
C12_AffinityListAppliesItems ==
    aff_pc = "done" =>
       /\ cpus_string = <<"r">> =>
            aff_ret = Result("list", [k \in 1 .. num_cpus |-> "y"])
       /\ (aff_items # << >> /\ DocumentedBelow(num_cpus)) =>
            /\ aff_ret.kind = "list"
            /\ Len(aff_ret.val) = num_cpus
            /\ \A k \in 1 .. num_cpus :
                 aff_ret.val[k] \in {"y", "-"} /\ aff_ret.val[k] = Expected(k - 1)

\* C12 happens: "0-2,^2" for four CPUs has given y y - -.
C12_Witness ==
    /\ aff_pc = "done"
    /\ cpus_string = <<"0", "-", "2", ",", "^", "2">>
    /\ num_cpus = 4
    /\ aff_ret = Result("list", <<"y", "y", "-", "-">>)

\* ------------------------------------ both CPU list parsers, one string
\* A caller hands one string of one to MaxItems items to cpus_parser and,
\* with a num_cpus of 0 to MaxNumCpus, to cpus_string_to_affinity_list.
BothInit ==
    /\ \E n \in 1 .. MaxItems :
         /\ cpu_items \in [1 .. n -> Items]
         /\ cpulist = Join(cpu_items)
    /\ cpu_pc = "call"
    /\ cpu_ret = [kind |-> "unset", val |-> << >>]
    /\ cpus_string = cpulist
    /\ aff_items = cpu_items
    /\ num_cpus \in 0 .. MaxNumCpus
    /\ aff_pc = "call"
    /\ aff_ret = [kind |-> "unset", val |-> << >>]

\* The two calls, in either order.
BothNext == CpusParserCall \/ AffinityCall

InitBoth == BothInit /\ MigIdle /\ ConnIdle /\ EditIdle /\ ChkIdle /\ NfsIdle /\ PoolIdle /\ CleanIdle

SpecBoth == InitBoth /\ [][BothNext]_vars

\* ------------------------------------- claims on the two parsers together
\* Both calls have been made on the string.
BothDone == cpu_pc = "done" /\ aff_pc = "done"

\* C21: for a string of integers, A-B ranges and ^N exclusions separated by
\* commas (one item or more, in any order) and a num_cpus larger than every
\* CPU number in it, cpus_string_to_affinity_list marks CPU i with 'y'
\* exactly when i is in the list cpus_parser returns for the same string.
C21_ParsersAgree ==
    (BothDone /\ DocumentedBelow(num_cpus)) =>
       /\ cpu_ret.kind = "list"
       /\ aff_ret.kind = "list"
       /\ \A c \in 0 .. (num_cpus - 1) :
            aff_ret.val[c + 1] = "y" <=> c \in Range(cpu_ret.val)

\* --------------------------------------------------------- check_result
\* The regular expressions handed over: the empty one and two literal ones.
Patterns == {<< >>, <<"a">>, <<"a", "b">>}

\* The texts result.stderr can be.
StdErrs == {<< >>, <<"a">>, <<"b">>, <<"a", "b">>, <<"b", "a">>}

\* What result.exit_status can be.
ExitStatuses == {0, 1, 2}

\* re.search(patt, s) for a pattern of literal characters, as truth value:
\* patt stands somewhere in s (the empty pattern stands in every s).
search(patt, s) ==
    \E k \in 0 .. (Len(s) - Len(patt)) : SubSeq(s, k + 1, k + Len(patt)) = patt

\* SkipMatch that tries the first pattern only.
SkipMatch_First(patts, s) == patts # << >> /\ search(patts[1], s)

\* The loop over skip_if reaches its raise (1521-1526).
SkipMatch(patts, s) == patts # << >> /\ \E k \in DOMAIN patts : search(patts[k], s)

\* AnyExpectedFail that wants every pattern to match.
AnyExpectedFail_All(patts, s) == \A k \in DOMAIN patts : search(patts[k], s)

\* any(re.search(patt, result.stderr) for patt in expected_fails) (1535-1536).
AnyExpectedFail(patts, s) == \E k \in DOMAIN patts : search(patts[k], s)

\* check_result(result, expected_fails, skip_if, any_error) (1507-1548): the
\* exception it raises, or "return".
check_result(status, err, fails, skips, any) ==
    IF SkipMatch(skips, err) THEN "TestSkipError"
    ELSE IF any
    THEN IF status # 0 THEN "return" ELSE "TestFail"
    ELSE IF status # 0
    THEN IF fails # << >>
         THEN IF ~AnyExpectedFail(fails, err) THEN "TestFail" ELSE "return"
         ELSE "TestFail"
    ELSE IF fails # << >> THEN "TestFail" ELSE "return"

\* A call of check_result.
ChkInit ==
    /\ exit_status \in ExitStatuses
    /\ stderr \in StdErrs
    /\ \E n \in 0 .. MaxPatterns : expected_fails \in [1 .. n -> Patterns]
    /\ \E n \in 0 .. MaxPatterns : skip_if \in [1 .. n -> Patterns]
    /\ any_error \in BOOLEAN
    /\ chk_pc = "call"
    /\ chk_out = "None"

\* The call.
CheckResultCall ==
    /\ chk_pc = "call"
    /\ chk_out' = check_result(exit_status, stderr, expected_fails, skip_if, any_error)
    /\ chk_pc' = "done"
    /\ UNCHANGED <<exit_status, stderr, expected_fails, skip_if, any_error, nonChkVars>>

ChkNext == CheckResultCall

InitChk == ChkInit /\ MigIdle /\ ConnIdle /\ EditIdle /\ CpuIdle /\ AffIdle /\ NfsIdle /\ PoolIdle /\ CleanIdle

SpecChk == InitChk /\ [][ChkNext]_vars

\* ----------------------------------------------- claims on check_result
\* Some pattern of the list matches result.stderr.
Matches(patts) == \E k \in DOMAIN patts : search(patts[k], stderr)

\* C13: when no skip_if pattern matches, check_result returns normally
\* exactly when any_error is True and exit_status is non-zero, or any_error
\* is False, expected_fails is empty and exit_status is zero, or any_error
\* is False, expected_fails is non-empty, exit_status is non-zero and some
\* expected_fails pattern matches stderr; otherwise it raises TestFail.
C13_ReturnsExactlyInThreeCases ==
    (chk_pc = "done" /\ ~Matches(skip_if)) =>
       /\ chk_out \in {"return", "TestFail"}
       /\ (chk_out = "return") <=>
            \/ any_error /\ exit_status # 0
            \/ ~any_error /\ expected_fails = << >> /\ exit_status = 0
            \/ ~any_error /\ expected_fails # << >> /\ exit_status # 0
                 /\ Matches(expected_fails)

\* C13 happens: a failed command whose stderr matches the second of two
\* expected patterns (and not the first) has been accepted.
C13_Witness ==
    /\ chk_pc = "done"
    /\ ~Matches(skip_if)
    /\ ~any_error
    /\ exit_status # 0
    /\ Len(expected_fails) = 2
    /\ ~search(expected_fails[1], stderr)
    /\ search(expected_fails[2], stderr)
    /\ chk_out = "return"

\* C14: if a skip_if pattern matches the result's stderr, check_result
\* raises TestSkipError, whatever exit_status, expected_fails and any_error
\* are, and never TestFail.
C14_SkipWins ==
    (chk_pc = "done" /\ Matches(skip_if)) => chk_out = "TestSkipError"

\* C14 happens: the second skip_if pattern (not the first) matches, the
\* other arguments alone would have given TestFail, and the call has raised
\* TestSkipError.
C14_Witness ==
    /\ chk_pc = "done"
    /\ Len(skip_if) = 2
    /\ ~search(skip_if[1], stderr)
    /\ search(skip_if[2], stderr)
    /\ check_result(exit_status, stderr, expected_fails, << >>, any_error) = "TestFail"
    /\ chk_out = "TestSkipError"

\* ------------------------------------------------- setup_or_cleanup_nfs
\* A path is the sequence of its parts, "/" among them; a status kept in a
\* dict or handed over as restore_selinux is the one-part sequence of it, ""
\* is the empty sequence and None is NoneStr.
Statuses == {"enforcing", "permissive", "disabled"}

\* The directories handed over as export_dir and mount_dir: a relative one
\* (as the defaults are) and an absolute one.
Dirs == {<<"nfs-dir">>, <<"/", "srv", "/", "nfs-dir">>}

\* What a caller hands over as restore_selinux: the default "", or the
\* selinux_status_bak of an earlier result (None on Ubuntu).
Restores == {<< >>, NoneStr} \cup {<<s>> : s \in Statuses}

\* data_dir.get_tmp_dir(): an absolute directory.
tmpdir == <<"/", "var", "/", "tmp">>

\* os.path.isabs(p)
isabs(p) == p # << >> /\ p[1] = "/"

\* os.path.join(a, p) for a directory a that does not end in "/".
join(a, p) == IF isabs(p) THEN p ELSE a \o <<"/">> \o p

\* AbsDir that keeps the directory as handed over.
AbsDir_AsGiven(d) == d

\* if not os.path.isabs(d): d = os.path.join(tmpdir, d) (460-463).
AbsDir(d) == IF ~isabs(d) THEN join(tmpdir, d) ELSE d

\* utils_selinux.get_status()
get_status == selinux

\* utils_selinux.is_enforcing()
is_enforcing == get_status = "enforcing"

\* utils_selinux.set_status(status): the status the host has afterwards and
\* whether the call raised. Nothing is done when the host has the status
\* already; "disabled" can be neither left nor entered on a running host
\* (the call raises, or is refused silently); enforcing and permissive are
\* switched.
set_status(status) ==
    IF status = get_status
    THEN {[status |-> get_status, raised |-> FALSE]}
    ELSE IF get_status = "disabled" \/ status = "disabled"
    THEN {[status |-> get_status, raised |-> r] : r \in BOOLEAN}
    ELSE {[status |-> status, raised |-> FALSE]}

\* `if restore_selinux:` for a string or None.
Truthy(s) == s # << >> /\ s # NoneStr

\* SetsStatus that never restores in a cleanup.
SetsStatus_SetupOnly(is_setup, restore_selinux) ==
    ~ubuntu /\ is_setup /\ is_enforcing

\* The call reaches one of its utils_selinux.set_status calls (478, 485).
SetsStatus(is_setup, restore_selinux) ==
    ~ubuntu /\ (IF is_setup THEN is_enforcing ELSE Truthy(restore_selinux))

\* del d[key]
Del(d, key) == [k \in (DOMAIN d) \ {key} |-> d[k]]

\* The body of setup_or_cleanup_nfs (457-493): what one call does to the
\* host and what it gives. nfs_raises: one of the calls on the nfs.Nfs
\* object (its construction, setup, umount, cleanup) raises.
setup_or_cleanup_nfs(is_setup, mount_dir, is_mount, export_dir, restore_selinux, nfs_raises) ==
    /\ LET result == [export_dir |-> AbsDir(export_dir),
                      mount_dir |-> AbsDir(mount_dir),
                      selinux_status_bak |->
                          IF ~ubuntu THEN <<get_status>> ELSE NoneStr]
       IN \E o \in (IF SetsStatus(is_setup, restore_selinux)
                    THEN set_status(IF is_setup THEN "permissive" ELSE restore_selinux[1])
                    ELSE {[status |-> selinux, raised |-> FALSE]}) :
            /\ selinux' = o.status
            /\ nfs_last' =
                 [is_setup |-> is_setup, is_mount |-> is_mount,
                  restore_selinux |-> restore_selinux,
                  returned |-> ~o.raised /\ ~nfs_raises,
                  before |-> selinux,
                  result |-> IF o.raised \/ nfs_raises THEN << >>
                             ELSE IF is_setup /\ ~is_mount
                             THEN Del(result, "mount_dir")
                             ELSE result]
    /\ nfs_prev' = [is_setup |-> nfs_last.is_setup, returned |-> nfs_last.returned,
                    before |-> nfs_last.before,
                    bak |-> IF nfs_last.returned
                            THEN nfs_last.result.selinux_status_bak ELSE << >>]
    /\ nfs_calls' = nfs_calls + 1
    /\ UNCHANGED ubuntu

\* One call of setup_or_cleanup_nfs (416-493) by a test.
SetupOrCleanupNfs(is_setup, mount_dir, is_mount, export_dir, restore_selinux, nfs_raises) ==
    /\ nfs_calls < MaxNfsCalls
    /\ setup_or_cleanup_nfs(is_setup, mount_dir, is_mount, export_dir,
                            restore_selinux, nfs_raises)
    /\ UNCHANGED nonNfsVars

\* setup_or_cleanup_nfs(is_setup=True, ...)
NfsSetup ==
    \E mount_dir \in Dirs, is_mount \in BOOLEAN, export_dir \in Dirs,
       restore_selinux \in Restores, nfs_raises \in BOOLEAN :
        SetupOrCleanupNfs(TRUE, mount_dir, is_mount, export_dir, restore_selinux, nfs_raises)

\* setup_or_cleanup_nfs(is_setup=False, ...)
NfsCleanup ==
    \E mount_dir \in Dirs, is_mount \in BOOLEAN, export_dir \in Dirs,
       restore_selinux \in Restores, nfs_raises \in BOOLEAN :
        SetupOrCleanupNfs(FALSE, mount_dir, is_mount, export_dir, restore_selinux, nfs_raises)

\* A host, Ubuntu or not, with SELinux in one of its states.
NfsInit ==
    /\ ubuntu \in BOOLEAN
    /\ selinux \in Statuses
    /\ nfs_calls = 0
    /\ nfs_last = NoNfsCall
    /\ nfs_prev = NoNfsPrev

NfsNext == NfsSetup \/ NfsCleanup

InitNfs == NfsInit /\ MigIdle /\ ConnIdle /\ EditIdle /\ CpuIdle /\ AffIdle /\ ChkIdle /\ PoolIdle /\ CleanIdle

SpecNfs == InitNfs /\ [][NfsNext]_vars

\* --------------------------------------- claims on setup_or_cleanup_nfs
\* The last call returned a dict.
NfsReturned == nfs_calls > 0 /\ nfs_last.returned

SetupThenCleanup ==
    /\ nfs_calls >= 2
    /\ nfs_prev.is_setup
    /\ nfs_prev.returned
    /\ ~nfs_last.is_setup
    /\ nfs_last.restore_selinux = nfs_prev.bak

PoolTypes == {"dir", "netfs", "logical", "iscsi", "disk", "fs", "gluster", "scsi", "bogus"}

\* The types whose branch starts with setup_or_cleanup_iscsi(True, ...).
IscsiTypes == {"logical", "iscsi", "disk", "fs"}

\* The calls a branch makes after the setup of its fixture, in order
\* (640, 654-655, 662, 677-681).
Todo(type, n) ==
    CASE type = "logical" -> <<"vg_create">>
      [] type = "disk" -> <<"mk_label", "mk_part">>
      [] type = "fs" -> <<"mkfs">>
      [] type = "gluster" -> [k \in 1 .. n |-> "qemu-img create"]
      [] OTHER -> << >>

\* The assignments a branch makes after the last of those calls (641-642,
\* 682).
AfterTodo(type, local) ==
    CASE type = "logical" -> [local EXCEPT !.cleanup_iscsi = TRUE, !.cleanup_logical = TRUE]
      [] type = "gluster" -> [local EXCEPT !.cleanup_gluster = TRUE]
      [] OTHER -> local

\* define_pool ends by an exception.
DefinePoolRaises(exc) ==
    /\ dp_pc' = "done"
    /\ dp_out' = exc

\* if not os.path.exists(pool_target) and pool_type != "gluster":
\*     os.mkdir(pool_target)                                    (621-622)
DefinePoolMkdir ==
    /\ dp_pc = "start"
    /\ \E raises \in (IF pool_type # "gluster" THEN BOOLEAN ELSE {FALSE}) :
         IF raises
         THEN DefinePoolRaises("OSError")
         ELSE dp_pc' = "branch" /\ UNCHANGED dp_out
    /\ UNCHANGED <<pool_type, gluster_vol_number, cleanup_flag, dp_local, dp_todo,
                   fixtures, nonPoolVars>>

\* pool_type == "dir": pass (623-624).
DefinePoolDir ==
    /\ dp_pc = "branch"
    /\ pool_type = "dir"
    /\ dp_pc' = "mark"
    /\ UNCHANGED <<pool_type, gluster_vol_number, cleanup_flag, dp_local, dp_todo,
                   fixtures, dp_out, nonPoolVars>>

\* pool_type == "netfs": setup_or_cleanup_nfs(True, pool_target, False)
\* and the assignments after it (625-633).
DefinePoolNetfs ==
    /\ dp_pc = "branch"
    /\ pool_type = "netfs"
    /\ \E pool_target \in Dirs, nfs_raises \in BOOLEAN :
         setup_or_cleanup_nfs(TRUE, pool_target, FALSE, <<"nfs-dir">>, << >>, nfs_raises)
    /\ IF nfs_last'.returned
       THEN /\ fixtures' = fixtures \cup {"nfs"}
            /\ dp_local' = [dp_local EXCEPT
                              !.selinux_bak = nfs_last'.result.selinux_status_bak,
                              !.cleanup_nfs = TRUE]
            /\ dp_pc' = "mark"
            /\ UNCHANGED dp_out
       ELSE /\ DefinePoolRaises("Exception")
            /\ UNCHANGED <<fixtures, dp_local>>
    /\ UNCHANGED <<pool_type, gluster_vol_number, cleanup_flag, dp_todo, nonNfsPoolVars>>

\* The branches that set up an iSCSI target (634-663), up to the end of
\* setup_or_cleanup_iscsi(True, ...): it gives a device or target, or (with
\* login, 524-531) cleans up after itself and gives "", or raises.
DefinePoolIscsi ==
    /\ dp_pc = "branch"
    /\ pool_type \in IscsiTypes
    /\ \E o \in (IF pool_type = "iscsi" THEN {"target", "raise"}
                 ELSE {"device", "", "raise"}) :
         IF o = "raise"
         THEN /\ DefinePoolRaises("Exception")
              /\ UNCHANGED <<fixtures, dp_local, dp_todo>>
         ELSE /\ fixtures' = IF o = "" THEN fixtures ELSE fixtures \cup {"iscsi"}
              /\ dp_local' = IF pool_type = "logical" THEN dp_local
                             ELSE [dp_local EXCEPT !.cleanup_iscsi = TRUE]
              /\ dp_todo' = Todo(pool_type, gluster_vol_number)
              /\ dp_pc' = IF pool_type = "iscsi" THEN "mark" ELSE "prepare"
              /\ UNCHANGED dp_out
    /\ UNCHANGED <<pool_type, gluster_vol_number, cleanup_flag, nonPoolVars>>

\* pool_type == "gluster", up to the end of setup_or_cleanup_gluster(True,
\* ...) (664-674).
DefinePoolGluster ==
    /\ dp_pc = "branch"
    /\ pool_type = "gluster"
    /\ \E raises \in BOOLEAN :
         IF raises
         THEN /\ DefinePoolRaises("Exception")
              /\ UNCHANGED <<fixtures, dp_local, dp_todo>>
         ELSE /\ fixtures' = fixtures \cup {"gluster"}
              /\ dp_todo' = Todo(pool_type, gluster_vol_number)
              /\ IF gluster_vol_number = 0
                 THEN dp_local' = AfterTodo(pool_type, dp_local) /\ dp_pc' = "mark"
                 ELSE dp_pc' = "prepare" /\ UNCHANGED dp_local
              /\ UNCHANGED dp_out
    /\ UNCHANGED <<pool_type, gluster_vol_number, cleanup_flag, nonPoolVars>>

\* The two raise statements at the end of the chain (685-690).
DefinePoolUnsupported ==
    /\ dp_pc = "branch"
    /\ pool_type \notin {"dir", "netfs", "gluster"} \cup IscsiTypes
    /\ DefinePoolRaises(IF pool_type \in {"scsi", "mpath", "rbd", "sheepdog"}
                        THEN "TestSkipError" ELSE "TestFail")
    /\ UNCHANGED <<pool_type, gluster_vol_number, cleanup_flag, dp_local, dp_todo,
                   fixtures, nonPoolVars>>

\* The next call after the fixture's setup: it returns or raises;
\* lv_utils.vg_create makes the volume group, and raises when it was given
\* "" for a device.
DefinePoolPrepare ==
    /\ dp_pc = "prepare"
    /\ dp_todo # << >>
    /\ \E raises \in (IF Head(dp_todo) = "vg_create" /\ "iscsi" \notin fixtures
                      THEN {TRUE} ELSE BOOLEAN) :
         IF raises
         THEN /\ DefinePoolRaises("Exception")
              /\ UNCHANGED <<fixtures, dp_local, dp_todo>>
         ELSE /\ fixtures' = IF Head(dp_todo) = "vg_create"
                             THEN fixtures \cup {"vg"} ELSE fixtures
              /\ dp_todo' = Tail(dp_todo)
              /\ IF Tail(dp_todo) = << >>
                 THEN dp_local' = AfterTodo(pool_type, dp_local) /\ dp_pc' = "mark"
                 ELSE UNCHANGED <<dp_local, dp_pc>>
              /\ UNCHANGED dp_out
    /\ UNCHANGED <<pool_type, gluster_vol_number, cleanup_flag, nonPoolVars>>

\* Mark the clean up flags (691-696).
DefinePoolMark ==
    /\ dp_pc = "mark"
    /\ cleanup_flag' = (0 :> dp_local.cleanup_nfs) @@ (1 :> dp_local.cleanup_iscsi)
                       @@ (2 :> dp_local.cleanup_logical) @@ (3 :> dp_local.selinux_bak)
                       @@ (4 :> dp_local.cleanup_gluster)
    /\ dp_pc' = "define"
    /\ UNCHANGED <<pool_type, gluster_vol_number, dp_local, dp_todo, fixtures, dp_out,
                   nonPoolVars>>

\* virsh.pool_define_as and the return (697-702): after a caught CmdError
\* the local result is not bound and `return result` raises.
DefinePoolDefineAs ==
    /\ dp_pc = "define"
    /\ \E o \in {"result", "CmdError", "Exception"} :
         dp_out' = CASE o = "result" -> "return"
                     [] o = "CmdError" -> "UnboundLocalError"
                     [] OTHER -> "Exception"
    /\ dp_pc' = "done"
    /\ UNCHANGED <<pool_type, gluster_vol_number, cleanup_flag, dp_local, dp_todo,
                   fixtures, nonPoolVars>>

\* A call of define_pool with a fresh cleanup_flag list, on a host as
\* setup_or_cleanup_nfs finds it.
PoolInit ==
    /\ pool_type \in PoolTypes
    /\ gluster_vol_number \in (IF pool_type = "gluster" THEN 0 .. MaxGlusterVols ELSE {0})
    /\ cleanup_flag = FreshFlags
    /\ dp_pc = "start"
    /\ dp_local = FreshLocals
    /\ dp_todo = << >>
    /\ fixtures = {}
    /\ dp_out = "running"

PoolNext ==
    \/ DefinePoolMkdir \/ DefinePoolDir \/ DefinePoolNetfs \/ DefinePoolIscsi
    \/ DefinePoolGluster \/ DefinePoolUnsupported \/ DefinePoolPrepare
    \/ DefinePoolMark \/ DefinePoolDefineAs

InitPool ==
    PoolInit /\ NfsInit /\ MigIdle /\ ConnIdle /\ EditIdle /\ CpuIdle /\ AffIdle /\ ChkIdle /\ CleanIdle

SpecPool == InitPool /\ [][PoolNext]_vars

\* ------------------------------------------------ claims on define_pool
\* C17: when control goes back to the caller of define_pool, by return or
\* by exception, each fixture it has set up has its cleanup_flag entry True
\* (0 for the NFS export, 1 for the iSCSI target, 2 for the volume group,
\* 4 for the gluster volume), cleanup_flag[3] holds the SELinux status the
\* NFS setup backed up, and for a dir pool all boolean flags are False.
C17_FlagsTellFixtures ==
    dp_pc = "done" =>
       /\ "nfs" \in fixtures =>
            /\ cleanup_flag[0] = TRUE
            /\ cleanup_flag[3] = nfs_last.result.selinux_status_bak
       /\ "iscsi" \in fixtures => cleanup_flag[1] = TRUE
       /\ "vg" \in fixtures => cleanup_flag[2] = TRUE
       /\ "gluster" \in fixtures => cleanup_flag[4] = TRUE
       /\ pool_type = "dir" => \A k \in {0, 1, 2, 4} : cleanup_flag[k] = FALSE

\* ------------------------------------------- PoolVolumeTest.cleanup_pool
\* The pool types handed over.
CleanTypes == {"dir", "netfs", "logical", "disk", "fs", "iscsi", "scsi", "gluster"}

\* kwargs.get('source_format'): None, or a format.
SourceFormats == {"None", "glusterfs", "ext4"}

\* kwargs.get('device_name', "/DEV/EXAMPLE"): the default, or the block
\* device the caller provided.
DeviceNames == {"/DEV/EXAMPLE", "/dev/sdb"}

\* device_name.count("EXAMPLE")
count_EXAMPLE(d) == IF d = "/DEV/EXAMPLE" THEN 1 ELSE 0

\* UsesIscsi that leaves the disk pool out.
UsesIscsi_NotForDisk(type, d) == type \in {"logical", "fs"} /\ count_EXAMPLE(d) # 0

\* pool_type in ["logical", "fs", "disk"] and device_name.count("EXAMPLE")
\* (950-951).
UsesIscsi(type, d) == type \in {"logical", "fs", "disk"} /\ count_EXAMPLE(d) # 0

\* The steps of an if statement of the finally block, when it is taken.
Seg(cond, steps) == IF cond THEN steps ELSE << >>

\* The steps of the finally block (935-971) for a call, in order.
Teardowns(type, fmt, d) ==
    Seg(type = "netfs" /\ fmt # "glusterfs", <<"nfs_cleanup", "rm_nfs_path">>)
    \o Seg(type = "logical", <<"pvs", "vgremove", "pvremove">>)
    \o Seg(UsesIscsi(type, d), <<"iscsi_cleanup">>)
    \o Seg(type \in {"iscsi", "scsi"},
           <<"iscsi_cleanup">> \o Seg(type = "scsi", <<"rm_scsi_xml">>))
    \o Seg(type \in {"dir", "fs", "netfs"}, <<"rm_pool_target">>)
    \o Seg(type = "gluster" \/ fmt = "glusterfs", <<"gluster_cleanup">>)

\* The steps that can raise: all but the two process.run calls made with
\* ignore_status=True (946-947).
CanRaise(step) == step \notin {"vgremove", "pvremove"}

\* The try block (924-934): the pool is not there or is deleted, or
\* sp.delete_pool gives False and TestFail is raised, or another call of the
\* block raises.
CleanupPoolTry ==
    /\ cp_pc = "try"
    /\ cp_pending' \in {"None", "TestFail", "TryError"}
    /\ cp_todo' = Teardowns(cp_pool_type, source_format, device_name)
    /\ cp_pc' = "finally"
    /\ UNCHANGED <<self_selinux_bak, cp_pool_type, source_format, device_name,
                   cp_ran, cp_out, nonCleanVars>>

\* setup_or_cleanup_nfs(is_setup=False, export_dir=nfs_path,
\*                      restore_selinux=self.selinux_bak)        (936-940)
CleanupPoolNfs ==
    /\ cp_pc = "finally"
    /\ cp_todo # << >>
    /\ Head(cp_todo) = "nfs_cleanup"
    /\ \E nfs_raises \in BOOLEAN :
         setup_or_cleanup_nfs(FALSE, <<"nfs-dir">>, FALSE,
                              tmpdir \o <<"/", "nfs-server">>, self_selinux_bak,
                              nfs_raises)
    /\ IF nfs_last'.returned
       THEN /\ cp_ran' = cp_ran \cup {"nfs_cleanup"}
            /\ cp_todo' = Tail(cp_todo)
            /\ UNCHANGED <<cp_pc, cp_out>>
       ELSE /\ cp_pc' = "done"
            /\ cp_out' = "TeardownError"
            /\ UNCHANGED <<cp_ran, cp_todo>>
    /\ UNCHANGED <<self_selinux_bak, cp_pool_type, source_format, device_name,
                   cp_pending, nonNfsCleanVars>>

\* Any other step of the finally block: it returns, or it raises and the
\* exception leaves cleanup_pool at once.
CleanupPoolTeardown ==
    /\ cp_pc = "finally"
    /\ cp_todo # << >>
    /\ Head(cp_todo) # "nfs_cleanup"
    /\ \E raises \in (IF CanRaise(Head(cp_todo)) THEN BOOLEAN ELSE {FALSE}) :
         IF raises
         THEN /\ cp_pc' = "done"
              /\ cp_out' = "TeardownError"
              /\ UNCHANGED <<cp_ran, cp_todo>>
         ELSE /\ cp_ran' = cp_ran \cup {Head(cp_todo)}
              /\ cp_todo' = Tail(cp_todo)
              /\ UNCHANGED <<cp_pc, cp_out>>
    /\ UNCHANGED <<self_selinux_bak, cp_pool_type, source_format, device_name,
                   cp_pending, nonCleanVars>>

\* The end of the finally block: the exception of the try block goes on to
\* the caller, or the method returns.
CleanupPoolEnd ==
    /\ cp_pc = "finally"
    /\ cp_todo = << >>
    /\ cp_out' = IF cp_pending = "None" THEN "return" ELSE cp_pending
    /\ cp_pc' = "done"
    /\ UNCHANGED <<self_selinux_bak, cp_pool_type, source_format, device_name,
                   cp_pending, cp_todo, cp_ran, nonCleanVars>>

\* A PoolVolumeTest object and a call of its cleanup_pool.
CleanInit ==
    /\ self_selinux_bak \in Restores
    /\ cp_pool_type \in CleanTypes
    /\ source_format \in SourceFormats
    /\ device_name \in DeviceNames
    /\ cp_pc = "try"
    /\ cp_pending = "None"
    /\ cp_todo = << >>
    /\ cp_ran = {}
    /\ cp_out = "running"

CleanNext == CleanupPoolTry \/ CleanupPoolNfs \/ CleanupPoolTeardown \/ CleanupPoolEnd

InitClean ==
    CleanInit /\ NfsInit /\ MigIdle /\ ConnIdle /\ EditIdle /\ CpuIdle /\ AffIdle /\ ChkIdle /\ PoolIdle

SpecClean == InitClean /\ [][CleanNext]_vars

\* ----------------------------------------------- claims on cleanup_pool
\* The teardown that belongs to the pool type: NFS cleanup for netfs that is
\* not gluster, volume group removal for logical, iSCSI cleanup for iscsi
\* and scsi and for logical, fs and disk without a device from the caller,
\* removal of the target directory for dir, fs and netfs, gluster cleanup
\* for gluster.
Belongs ==
    (IF cp_pool_type = "netfs" /\ source_format # "glusterfs" THEN {"nfs_cleanup"} ELSE {})
    \cup (IF cp_pool_type = "logical" THEN {"vgremove"} ELSE {})
    \cup (IF cp_pool_type \in {"iscsi", "scsi"}
             \/ (cp_pool_type \in {"logical", "fs", "disk"} /\ device_name = "/DEV/EXAMPLE")
          THEN {"iscsi_cleanup"} ELSE {})
    \cup (IF cp_pool_type \in {"dir", "fs", "netfs"} THEN {"rm_pool_target"} ELSE {})
    \cup (IF cp_pool_type = "gluster" THEN {"gluster_cleanup"} ELSE {})

\* cleanup_pool has ended after a failed deletion of the pool.
EndedAfterFailedDelete == cp_pc = "done" /\ cp_pending = "TestFail"

\* C18 as stated: when deleting the pool fails, the teardown that belongs
\* to the pool type has run all the same and the TestFail reaches the
\* caller.
C18_TeardownRunsAndTestFailReaches ==
    EndedAfterFailedDelete => (Belongs \subseteq cp_ran /\ cp_out = "TestFail")

\* C18 amended: when deleting the pool fails, the teardown steps run in
\* order until one of them raises; if all return, the teardown that belongs
\* to the pool type has run and the TestFail reaches the caller; if one
\* raises, the steps after it have not run and its exception reaches the
\* caller in place of the TestFail.
C18_TeardownUntilOneRaises ==
    EndedAfterFailedDelete =>
       /\ cp_out \in {"TestFail", "TeardownError"}
       /\ (cp_out = "TestFail") <=> (cp_todo = << >>)
       /\ cp_todo = << >> => Belongs \subseteq cp_ran
       /\ cp_ran \cap Range(cp_todo) = {}

\* C18 happens: deleting a logical pool on the default device failed, the
\* volume group and the iSCSI target were removed, and the caller got
\* TestFail.
C18_Witness ==
    /\ EndedAfterFailedDelete
    /\ cp_pool_type = "logical"
    /\ {"vgremove", "iscsi_cleanup"} \subseteq cp_ran
    /\ cp_out = "TestFail"

====
